---- MODULE Spec2Model ----
(***************************************************************************)
(* The resource adapter of azurerm_linux_function_app_slot                 *)
(* (internal/services/appservice/linux_function_app_slot_resource.go):     *)
(* Create, Read, Update and Delete as sequential handlers over a remote    *)
(* resource-management API whose calls may fail.                           *)
(*                                                                         *)
(* One handler invocation is one action.  The handler's inputs are the     *)
(* decoded desired-state record and what the remote answers to each call;  *)
(* its outputs are the calls it issued (in order), the documents it sent,  *)
(* the value it returned and whether it recorded the resource ID.          *)
(***************************************************************************)
EXTENDS Naturals, Sequences, FiniteSets, TLC

\* ------------------------------------------------------------------ bounds

\* How many fields of the desired-state record differ from the schema defaults.
MaxNonDefault == 2
\* How many keys the user puts in app_settings.
MaxUserKeys == 1

\* ------------------------------------------------------------- Go values

\* map[string]string: a nil map reads as empty and faults when written.
EmptyKV == [k \in {} |-> ""]
NilMap == [isNil |-> TRUE, kv |-> EmptyKV]
MakeMap == [isNil |-> FALSE, kv |-> EmptyKV]

\* m[k] = v on a map that is not nil.
MapPut(m, k, v) ==
    [isNil |-> FALSE,
     kv |-> [x \in (DOMAIN m.kv) \cup {k} |-> IF x = k THEN v ELSE m.kv[x]]]

\* _, present := m[k]
Present(m, k) == k \in DOMAIN m.kv

\* ------------------------------------------------- desired-state record

UserKeys ==
    {"APP_KEY", "AzureWebJobsDashboard", "AzureWebJobsDashboard__accountName",
     "WEBSITE_CONTENTSHARE", "WEBSITE_CONTENTAZUREFILECONNECTIONSTRING"}

UserMaps ==
    {NilMap} \cup
    {[isNil |-> FALSE, kv |-> [k \in K |-> "user"]] :
        K \in {S \in SUBSET UserKeys : Cardinality(S) <= MaxUserKeys}}

\* storage_account_name / storage_account_access_key /
\* storage_uses_managed_identity / storage_key_vault_secret_id: exactly one of
\* name and secret id, and the access key, the identity flag and the secret id
\* exclude one another.
StorageChoices ==
    {[StorageAccountName |-> "acct1", StorageAccountKey |-> "key1",
      StorageUsesMSI |-> FALSE, StorageKeyVaultSecretID |-> ""],
     [StorageAccountName |-> "acct1", StorageAccountKey |-> "",
      StorageUsesMSI |-> TRUE, StorageKeyVaultSecretID |-> ""],
     [StorageAccountName |-> "", StorageAccountKey |-> "",
      StorageUsesMSI |-> FALSE, StorageKeyVaultSecretID |-> "secret1"]}

B2N(b) == IF b THEN 1 ELSE 0

\* LinuxFunctionAppSlotModel, the fields Create reads.
LinuxFunctionAppSlotModel ==
    {[Storage |-> s, AppSettings |-> a, BuiltinLogging |-> bl,
      ForceDisableContentShare |-> fd, Backup |-> bk, AuthSettings |-> au,
      ConnectionStrings |-> cs, AppServiceLogs |-> lg] :
        s \in StorageChoices, a \in UserMaps, bl \in BOOLEAN, fd \in BOOLEAN,
        bk \in BOOLEAN, au \in BOOLEAN, cs \in BOOLEAN, lg \in BOOLEAN}

\* The number of fields set away from the schema's defaults (account key
\* storage, builtin_logging_enabled = true, content_share_force_disabled =
\* false, no app_settings, no backup / auth_settings / connection_string /
\* app_service_logs block).
NonDefault(r) ==
    B2N(r.Storage.StorageAccountKey = "") + B2N(~r.AppSettings.isNil)
    + B2N(~r.BuiltinLogging) + B2N(r.ForceDisableContentShare)
    + B2N(r.Backup) + B2N(r.AuthSettings) + B2N(r.ConnectionStrings)
    + B2N(r.AppServiceLogs)

CreateRecords == {r \in LinuxFunctionAppSlotModel : NonDefault(r) <= MaxNonDefault}

\* ------------------------------------------------------------ environment

\* servicePlan.Sku.Tier as the remote reports it.
Tiers ==
    {"Dynamic", "dynamic", "ElasticPremium", "elastic", "Basic", "Standard",
     "PremiumV2", "PremiumV3"}

\* strings.ToLower on the tiers above.
ToLower(t) ==
    CASE t = "Dynamic" -> "dynamic"
      [] t = "ElasticPremium" -> "elasticpremium"
      [] t = "Basic" -> "basic"
      [] t = "Standard" -> "standard"
      [] t = "PremiumV2" -> "premiumv2"
      [] t = "PremiumV3" -> "premiumv3"
      [] OTHER -> t

\* servicePlan.HostingEnvironmentProfile: none; one without an ID; one whose
\* ID does not parse (the parser handing back a nil or a zero identifier); one
\* whose environment cannot be read; one read without and with a DNS suffix.
AseChoices ==
    {"none", "noid", "badid_nil", "badid_zero", "lookuperr", "nosuffix", "suffix"}

\* Where one invocation of Create may fail: a remote call (by its place in the
\* handler), an attribute the remote left out, an expansion step.  "none": no
\* failure.
CreateFailPoints ==
    {"none", "Get", "Get.Location", "Get.ServerFarmID", "ServicePlanGet",
     "ServicePlanGet.Sku", "GetSlot", "CheckNameAvailability",
     "CheckNameAvailability.NameAvailable", "ExpandSiteConfig", "expandIdentity",
     "CreateOrUpdateSlot.1", "WaitForCompletionRef.1", "CreateOrUpdateSlot.2",
     "WaitForCompletionRef.2", "UpdateBackupConfigurationSlot",
     "UpdateAuthSettingsSlot", "UpdateConnectionStringsSlot",
     "UpdateDiagnosticLogsConfigSlot"}

\* The calls that change the remote.
MutatingCalls ==
    {"CreateOrUpdateSlot", "UpdateConfigurationSlot", "UpdateBackupConfigurationSlot",
     "DeleteBackupConfigurationSlot", "UpdateAuthSettingsSlot",
     "UpdateConnectionStringsSlot", "UpdateDiagnosticLogsConfigSlot", "DeleteSlot"}

\* The values a handler returns.
OK == "nil"
RequiresImport == "metadata.ResourceRequiresImport"
Gone == "metadata.MarkAsGone"
Panic == "panic"

None == "none"

\* A callee's answer that is not a success: where, and not-found or another error.
Fault(at, kind) == [at |-> at, kind |-> kind]

\* ----------------------------------------------------------------- Create

\* A variant without the case "dynamic" (lines 321-322).
SendContentSettingsDynamicOn(force, tier) ==
    /\ ~force
    /\ ToLower(tier) \notin {"basic", "standard", "premiumv2", "premiumv3"}

\* sendContentSettings, from content_share_force_disabled and the plan's tier.
SendContentSettings(force, tier) ==
    /\ ~force
    /\ ToLower(tier) \notin {"dynamic", "basic", "standard", "premiumv2", "premiumv3"}

\* storageString: the account name under managed identity, else the Key Vault
\* reference, else the connection string.
StorageString(r) ==
    IF r.Storage.StorageUsesMSI THEN r.Storage.StorageAccountName
    ELSE IF r.Storage.StorageKeyVaultSecretID # ""
         THEN "@Microsoft.KeyVault(SecretUri=secret1)"
         ELSE "DefaultEndpointsProtocol=https;AccountName=acct1;AccountKey=key1;EndpointSuffix=core.windows.net"

\* helpers.ExpandSiteConfigLinuxFunctionAppSlot: the framework-managed
\* application settings of the expanded site_config.
ExpandSiteConfigAppSettings(r) ==
    LET storageKey == IF r.Storage.StorageUsesMSI
                      THEN "AzureWebJobsStorage__accountName"
                      ELSE "AzureWebJobsStorage"
    IN  [k \in {"FUNCTIONS_EXTENSION_VERSION", storageKey} |->
            IF k = "FUNCTIONS_EXTENSION_VERSION" THEN "~4" ELSE StorageString(r)]

\* helpers.MergeUserAppSettings: the framework-managed settings plus the user's,
\* a framework-managed key keeping its value.
MergeUserAppSettings(system, user) ==
    [k \in (DOMAIN system) \cup (DOMAIN user.kv) |->
        IF k \in DOMAIN system THEN system[k] ELSE user.kv[k]]

\* A variant that writes both dashboard keys, whatever the identity.
BuiltinLoggingBothKeys(r, settings) ==
    IF ~r.BuiltinLogging THEN settings
    ELSE LET s == IF settings.isNil THEN MakeMap ELSE settings
         IN  MapPut(MapPut(s, "AzureWebJobsDashboard", StorageString(r)),
                    "AzureWebJobsDashboard__accountName", r.Storage.StorageAccountName)

\* if functionAppSlot.BuiltinLogging { ... }: the dashboard key.
BuiltinLoggingSettings(r, settings) ==
    IF ~r.BuiltinLogging THEN settings
    ELSE LET s == IF settings.isNil THEN MakeMap ELSE settings
         IN  IF ~r.Storage.StorageUsesMSI
             THEN MapPut(s, "AzureWebJobsDashboard", StorageString(r))
             ELSE MapPut(s, "AzureWebJobsDashboard__accountName",
                         r.Storage.StorageAccountName)

\* A variant that writes both content share keys, given by the user or not.
ContentSettingsOverwrite(send, r, settings) ==
    IF ~send THEN settings
    ELSE LET s0 == IF settings.isNil THEN MakeMap ELSE settings
         IN  MapPut(MapPut(s0, "WEBSITE_CONTENTSHARE", "slot1-0a1b"),
                    "WEBSITE_CONTENTAZUREFILECONNECTIONSTRING", StorageString(r))

\* if sendContentSettings { ... }: the content share keys the user did not give.
ContentSettings(send, r, settings) ==
    IF ~send THEN settings
    ELSE LET s0 == IF settings.isNil THEN MakeMap ELSE settings
             s1 == IF ~Present(s0, "WEBSITE_CONTENTSHARE")
                   THEN MapPut(s0, "WEBSITE_CONTENTSHARE", "slot1-0a1b")
                   ELSE s0
         IN  IF ~Present(s1, "WEBSITE_CONTENTAZUREFILECONNECTIONSTRING")
             THEN MapPut(s1, "WEBSITE_CONTENTAZUREFILECONNECTIONSTRING",
                         StorageString(r))
             ELSE s1

\* siteEnvelope: the document of the primary create.
SiteEnvelope(r, tier) ==
    LET send == SendContentSettings(r.ForceDisableContentShare, tier)
        user == ContentSettings(send, r, BuiltinLoggingSettings(r, r.AppSettings))
    IN  [Kind |-> "functionapp,linux",
         AppSettings |-> MergeUserAppSettings(ExpandSiteConfigAppSettings(r), user)]

\* availabilityRequest, with the calls, the warnings and the failures met that
\* the App Service Environment lookup adds.  nilDeref: the parser's nil
\* identifier is dereferenced.
AvailabilityRequest(ase) ==
    CASE ase = "none" ->
            [Name |-> "site1-slot1", IsFqdn |-> FALSE, calls |-> <<>>,
             warnings |-> <<>>, faults |-> <<>>, nilDeref |-> FALSE]
      [] ase = "noid" ->
            [Name |-> "slot1.appserviceenvironment.net", IsFqdn |-> TRUE,
             calls |-> <<>>, warnings |-> <<>>, faults |-> <<>>, nilDeref |-> FALSE]
      [] ase = "badid_nil" ->
            [Name |-> None, IsFqdn |-> FALSE, calls |-> <<>>, warnings |-> <<>>,
             faults |-> <<Fault("parse.AppServiceEnvironmentID", "error")>>, nilDeref |-> TRUE]
      [] ase = "badid_zero" ->
            [Name |-> "slot1..appserviceenvironment.net", IsFqdn |-> TRUE,
             calls |-> <<>>,
             warnings |-> <<"could not parse App Service Environment ID">>,
             faults |-> <<Fault("parse.AppServiceEnvironmentID", "error")>>, nilDeref |-> FALSE]
      [] ase = "lookuperr" ->
            [Name |-> "slot1.ase1.appserviceenvironment.net", IsFqdn |-> TRUE,
             calls |-> <<"AppServiceEnvironmentGet">>,
             warnings |-> <<"could not read App Service Environment">>,
             faults |-> <<Fault("AppServiceEnvironmentGet", "error")>>, nilDeref |-> FALSE]
      [] ase = "nosuffix" ->
            [Name |-> "slot1.ase1.appserviceenvironment.net", IsFqdn |-> TRUE,
             calls |-> <<"AppServiceEnvironmentGet">>, warnings |-> <<>>,
             faults |-> <<>>, nilDeref |-> FALSE]
      [] OTHER ->
            [Name |-> "slot1.ase1.example.net", IsFqdn |-> TRUE,
             calls |-> <<"AppServiceEnvironmentGet">>, warnings |-> <<>>,
             faults |-> <<>>, nilDeref |-> FALSE]

\* A variant that notes a failure and goes on with the later steps.
RECURSIVE RunCallsKeepGoing(_, _, _, _, _)
RunCallsKeepGoing(steps, ans, tolerated, calls, faults) ==
    IF steps = <<>> THEN [calls |-> calls, err |-> OK, faults |-> faults]
    ELSE LET st == Head(steps)
             cs == IF st[2] = None THEN calls ELSE Append(calls, st[2])
             fs == IF ans[st[1]] = "ok" THEN faults
                   ELSE Append(faults, Fault(st[1], ans[st[1]]))
             rest == RunCallsKeepGoing(Tail(steps), ans, tolerated, cs, fs)
         IN  IF ~st[4] THEN RunCallsKeepGoing(Tail(steps), ans, tolerated, calls, faults)
             ELSE IF ans[st[1]] # "ok" /\ st[1] \notin tolerated
                  THEN [calls |-> rest.calls, err |-> st[3], faults |-> rest.faults]
                  ELSE rest

\* A run of fallible steps, each returning at its failure: steps are
\* <<place, remote call (None: a local step), error text, reached>>; ans gives
\* each place's answer ("ok" or how it failed); a failure at a tolerated place
\* does not end the run.
RECURSIVE RunCalls(_, _, _, _, _)
RunCalls(steps, ans, tolerated, calls, faults) ==
    IF steps = <<>> THEN [calls |-> calls, err |-> OK, faults |-> faults]
    ELSE LET st == Head(steps)
             cs == IF st[2] = None THEN calls ELSE Append(calls, st[2])
             fs == IF ans[st[1]] = "ok" THEN faults
                   ELSE Append(faults, Fault(st[1], ans[st[1]]))
         IN  IF ~st[4] THEN RunCalls(Tail(steps), ans, tolerated, calls, faults)
             ELSE IF ans[st[1]] # "ok" /\ st[1] \notin tolerated
                  THEN [calls |-> cs, err |-> st[3], faults |-> fs]
                  ELSE RunCalls(Tail(steps), ans, tolerated, cs, fs)

\* The answers of a run in which at most the place fail fails, with an error.
OneFailure(places, fail) == [p \in places |-> IF p = fail THEN "error" ELSE "ok"]

\* A variant that configures the backup before the properties update.
CreateStepsBackupEarly(r) ==
    << <<"CreateOrUpdateSlot.1", "CreateOrUpdateSlot", "creating Linux %s: %+v", TRUE>>,
       <<"WaitForCompletionRef.1", "WaitForCompletionRef",
         "waiting for creation of Linux %s: %+v", TRUE>>,
       <<"UpdateBackupConfigurationSlot", "UpdateBackupConfigurationSlot",
         "adding Backup Settings for Linux %s: %+v", r.Backup>>,
       <<"CreateOrUpdateSlot.2", "CreateOrUpdateSlot",
         "updating properties of Linux %s: %+v", TRUE>>,
       <<"WaitForCompletionRef.2", "WaitForCompletionRef",
         "waiting for creation of Linux %s: %+v", TRUE>>,
       <<"UpdateAuthSettingsSlot", "UpdateAuthSettingsSlot",
         "setting Authorisation Settings for Linux %s: %+v", r.AuthSettings>>,
       <<"UpdateConnectionStringsSlot", "UpdateConnectionStringsSlot",
         "setting Connection Strings for Linux %s: %+v", r.ConnectionStrings>>,
       <<"UpdateDiagnosticLogsConfigSlot", "UpdateDiagnosticLogsConfigSlot",
         "updating App Service Log Settings for %s: %+v", r.AppServiceLogs>> >>

\* The primary create, its re-issue, and the dependent sub-resource calls.
CreateSteps(r) ==
    << <<"CreateOrUpdateSlot.1", "CreateOrUpdateSlot", "creating Linux %s: %+v", TRUE>>,
       <<"WaitForCompletionRef.1", "WaitForCompletionRef",
         "waiting for creation of Linux %s: %+v", TRUE>>,
       <<"CreateOrUpdateSlot.2", "CreateOrUpdateSlot",
         "updating properties of Linux %s: %+v", TRUE>>,
       <<"WaitForCompletionRef.2", "WaitForCompletionRef",
         "waiting for creation of Linux %s: %+v", TRUE>>,
       <<"UpdateBackupConfigurationSlot", "UpdateBackupConfigurationSlot",
         "adding Backup Settings for Linux %s: %+v", r.Backup>>,
       <<"UpdateAuthSettingsSlot", "UpdateAuthSettingsSlot",
         "setting Authorisation Settings for Linux %s: %+v", r.AuthSettings>>,
       <<"UpdateConnectionStringsSlot", "UpdateConnectionStringsSlot",
         "setting Connection Strings for Linux %s: %+v", r.ConnectionStrings>>,
       <<"UpdateDiagnosticLogsConfigSlot", "UpdateDiagnosticLogsConfigSlot",
         "updating App Service Log Settings for %s: %+v", r.AppServiceLogs>> >>

\* What Create leaves behind: the calls issued, the value returned, whether
\* metadata.SetID ran, the locals it got to, and every answer of a callee that
\* was not a success.
Ret(calls, err, idSet, tier, avail, warnings, envelope, faults) ==
    [calls |-> calls, err |-> err, idSet |-> idSet, tier |-> tier,
     availability |-> avail, warnings |-> warnings, envelope |-> envelope,
     faults |-> faults]

\* A variant that goes on to create over a slot that is there.
ExistingSlotOverwrite(fail, exists) ==
    IF fail = "GetSlot" THEN "checking for presence of existing Linux %s: %+v"
    ELSE OK

\* The existence check of Create: the check failed, the slot is there, or the
\* slot is not found.
ExistingSlot(fail, exists) ==
    IF fail = "GetSlot" THEN "checking for presence of existing Linux %s: %+v"
    ELSE IF exists THEN RequiresImport
    ELSE OK

\* A variant that takes the availability answer as advice only.
CheckNameAdvisory(fail) ==
    IF fail = "CheckNameAvailability"
    THEN "checking name availability for Linux %s: %+v"
    ELSE OK

\* The name-availability check of Create: the call failed, the name is not
\* available, or the name is free.
CheckName(fail) ==
    IF fail = "CheckNameAvailability"
    THEN "checking name availability for Linux %s: %+v"
    ELSE IF fail = "CheckNameAvailability.NameAvailable"
    THEN "the Site Name %q failed the availability check: %+v"
    ELSE OK

\* LinuxFunctionAppSlotResource.Create, Func.
CreateRun(r, tier, ase, fail, exists) ==
    LET c1 == <<"Get">>
        c2 == <<"Get", "ServicePlanGet">>
        c3 == <<"Get", "ServicePlanGet", "GetSlot">>
        f0 == <<Fault(fail, "error")>>
        nf == IF exists THEN <<>> ELSE <<Fault("GetSlot", "notfound")>>
        av == AvailabilityRequest(ase)
        req == [Name |-> av.Name, IsFqdn |-> av.IsFqdn]
        c4 == c3 \o av.calls
        c5 == Append(c4, "CheckNameAvailability")
        f5 == (nf \o av.faults) \o f0
        na == IF fail \in {"CheckNameAvailability",
                           "CheckNameAvailability.NameAvailable"}
              THEN f5 ELSE nf \o av.faults
        env == SiteEnvelope(r, tier)
        run == RunCalls(CreateSteps(r), OneFailure(CreateFailPoints, fail), {},
                        c5, na)
    IN  IF fail = "Get"
        THEN Ret(c1, "retrieving parent Linux %s: %+v", FALSE, None, None, <<>>, None, f0)
        ELSE IF fail = "Get.Location"
        THEN Ret(c1, "could not determine location for %s: %+v", FALSE, None, None, <<>>, None, f0)
        ELSE IF fail = "Get.ServerFarmID"
        THEN Ret(c1, "could not determine Service Plan ID for %s: %+v", FALSE, None, None, <<>>, None, f0)
        ELSE IF fail = "ServicePlanGet"
        THEN Ret(c2, "reading %s: %+v", FALSE, None, None, <<>>, None, f0)
        ELSE IF fail = "ServicePlanGet.Sku"
        THEN Ret(c2, "determining plan type for Linux %s: %v", FALSE, None, None, <<>>, None, f0)
        ELSE IF fail = "GetSlot"
        THEN Ret(c3, ExistingSlot(fail, exists), FALSE, tier, None, <<>>, None, f0)
        ELSE IF ExistingSlot(fail, exists) # OK
        THEN Ret(c3, ExistingSlot(fail, exists), FALSE, tier, None, <<>>, None, <<>>)
        ELSE IF av.nilDeref
        THEN Ret(c3, Panic, FALSE, tier, None, <<>>, None, nf \o av.faults)
        ELSE IF CheckName(fail) # OK
        THEN Ret(c5, CheckName(fail), FALSE, tier, req, av.warnings, None, f5)
        ELSE IF fail = "ExpandSiteConfig"
        THEN Ret(c5, "expanding site_config for Linux %s: %+v", FALSE, tier, req, av.warnings, None, f5)
        ELSE IF fail = "expandIdentity"
        THEN Ret(c5, "expanding identity: %+v", FALSE, tier, req, av.warnings, None, f5)
        ELSE Ret(run.calls, run.err, run.err = OK, tier, req, av.warnings, env,
                 run.faults)

\* ----------------------------------------------------------------- Delete

\* A variant that reads a not-found answer as the slot being deleted.
DeleteRunIdempotent(kind) ==
    [calls |-> <<"DeleteSlot">>,
     err |-> IF kind = "error" THEN "deleting Linux %s: %+v" ELSE OK,
     idSet |-> FALSE,
     faults |-> IF kind = "ok" THEN <<>> ELSE <<Fault("DeleteSlot", kind)>>]

\* LinuxFunctionAppSlotResource.Delete, Func: DeleteSlot, its one call.
DeleteRun(kind) ==
    [calls |-> <<"DeleteSlot">>,
     err |-> IF kind # "ok" THEN "deleting Linux %s: %+v" ELSE OK,
     idSet |-> FALSE,
     faults |-> IF kind = "ok" THEN <<>> ELSE <<Fault("DeleteSlot", kind)>>]

\* ------------------------------------------------------------------- Read

\* The fetches of dependent sub-resources, in the order Read issues them.
SubFetches ==
    {"ListApplicationSettingsSlot", "ListConnectionStringsSlot",
     "ListPublishingCredentialsSlot", "GetAuthSettingsSlot",
     "GetBackupConfigurationSlot", "GetDiagnosticLogsConfigurationSlot",
     "GetConfigurationSlot"}

ReadFailPoints ==
    {"none", "GetSlot", "GetSlot.SiteProperties", "WaitForCompletionRef",
     "siteCredentialsFuture.Result", "FlattenSiteConfig", "Encode",
     "flattenIdentity", "Set.identity"} \cup SubFetches

\* The answers a place can fail with.
FailKinds(place) == IF place \in SubFetches THEN {"error", "notfound"} ELSE {"error"}

\* A variant that returns the generic error for a slot not found.
ReadPrimaryGeneric(fail, exists) ==
    IF fail = "GetSlot" \/ ~exists THEN "reading Linux %s: %+v"
    ELSE OK

\* The primary fetch of Read: failed, not found (the resource is gone), found.
ReadPrimary(fail, exists) ==
    IF fail = "GetSlot" THEN "reading Linux %s: %+v"
    ELSE IF ~exists THEN Gone
    ELSE OK

\* A variant without the not-found case of the backup configuration.
SubFetchFatalAlways(place, kind) == TRUE

\* Whether a failed fetch of a sub-resource ends Read: every one does, but a
\* not-found backup configuration.
SubFetchFatal(place, kind) ==
    ~(place = "GetBackupConfigurationSlot" /\ kind = "notfound")

ReadSteps ==
    << <<"GetSlot.SiteProperties", None, "reading properties of Linux %s", TRUE>>,
       <<"ListApplicationSettingsSlot", "ListApplicationSettingsSlot",
         "reading App Settings for Linux %s: %+v", TRUE>>,
       <<"ListConnectionStringsSlot", "ListConnectionStringsSlot",
         "reading Connection String information for Linux %s: %+v", TRUE>>,
       <<"ListPublishingCredentialsSlot", "ListPublishingCredentialsSlot",
         "listing Site Publishing Credential information for Linux %s: %+v", TRUE>>,
       <<"WaitForCompletionRef", "WaitForCompletionRef",
         "waiting for Site Publishing Credential information for Linux %s: %+v", TRUE>>,
       <<"siteCredentialsFuture.Result", None,
         "reading Site Publishing Credential information for Linux %s: %+v", TRUE>>,
       <<"GetAuthSettingsSlot", "GetAuthSettingsSlot",
         "reading Auth Settings for Linux %s: %+v", TRUE>>,
       <<"GetBackupConfigurationSlot", "GetBackupConfigurationSlot",
         "reading Backup Settings for Linux %s: %+v", TRUE>>,
       <<"GetDiagnosticLogsConfigurationSlot", "GetDiagnosticLogsConfigurationSlot",
         "reading logs configuration for Linux %s: %+v", TRUE>>,
       <<"GetConfigurationSlot", "GetConfigurationSlot",
         "making Read request on AzureRM Function App Configuration %q: %+v", TRUE>>,
       <<"FlattenSiteConfig", None, "reading Site Config for Linux %s: %+v", TRUE>>,
       <<"Encode", None, "encoding: %+v", TRUE>>,
       <<"flattenIdentity", None, "flattening identity: %+v", TRUE>>,
       <<"Set.identity", None, "setting identity: %+v", TRUE>> >>

\* helpers.Flatten*: the sub-state of a response; the zero response of a fetch
\* that found nothing flattens to the empty sub-state.
FlattenSub(found) == IF found THEN "flattened" ELSE "empty"

\* A nil *string, and utils.NormalizeNilableString.
NilValue == "<nil>"

NormalizeNilableString(v) == IF v = NilValue THEN "" ELSE v

\* web.StringDictionary: Properties, a map[string]*string, nil or not.
NilDictionary == [isNil |-> TRUE, kv |-> EmptyKV]

Dictionary(kv) == [isNil |-> FALSE, kv |-> kv]

\* The keys unpackLinuxFunctionAppSettings takes out of app_settings, into
\* fields of their own or into nothing, and those it leaves in app_settings
\* only where the configuration has them.
ConsumedKeys ==
    {"FUNCTIONS_EXTENSION_VERSION", "WEBSITE_NODE_DEFAULT_VERSION",
     "WEBSITE_HTTPLOGGING_RETENTION_DAYS", "DOCKER_REGISTRY_SERVER_URL",
     "DOCKER_REGISTRY_SERVER_USERNAME", "DOCKER_REGISTRY_SERVER_PASSWORD",
     "APPINSIGHTS_INSTRUMENTATIONKEY", "APPLICATIONINSIGHTS_CONNECTION_STRING",
     "AzureWebJobsStorage", "AzureWebJobsDashboard",
     "WEBSITE_HEALTHCHECK_MAXPINGFAILURES", "AzureWebJobsStorage__accountName",
     "AzureWebJobsDashboard__accountName"}

ConfiguredOnlyKeys ==
    {"WEBSITE_CONTENTAZUREFILECONNECTIONSTRING", "WEBSITE_CONTENTSHARE",
     "FUNCTIONS_WORKER_RUNTIME", "WEBSITE_RUN_FROM_PACKAGE"}

\* metadata.ResourceData.GetOk("app_settings.<k>"): the configuration has the
\* key, with a value that is not empty.
GetOk(configured, k) == k \in DOMAIN configured.kv /\ configured.kv[k] # ""

\* case "FUNCTIONS_WORKER_RUNTIME": *v is read, with no test for nil, when the
\* flattened site_config has no application stack.
WorkerRuntimeFault(input, stackEmpty) ==
    /\ "FUNCTIONS_WORKER_RUNTIME" \in DOMAIN input.kv
    /\ stackEmpty
    /\ input.kv["FUNCTIONS_WORKER_RUNTIME"] = NilValue

\* The keys unpackLinuxFunctionAppSettings puts into m.AppSettings.
UnpackedKeys(input, configured) ==
    {k \in DOMAIN input.kv :
        CASE k \in ConsumedKeys -> FALSE
          [] k \in ConfiguredOnlyKeys -> GetOk(configured, k)
          [] OTHER -> TRUE}

\* LinuxFunctionAppSlotModel.unpackLinuxFunctionAppSettings: input is the
\* remote's dictionary, configured the app_settings of the configuration,
\* stackEmpty whether the flattened site_config came without an application
\* stack.  fault: a nil pointer is dereferenced.
unpackLinuxFunctionAppSettings(input, configured, stackEmpty) ==
    IF input.isNil
    THEN [fault |-> FALSE, BuiltinLogging |-> FALSE, AppSettings |-> NilMap,
          CustomHandler |-> FALSE]
    ELSE IF WorkerRuntimeFault(input, stackEmpty)
    THEN [fault |-> TRUE, BuiltinLogging |-> FALSE, AppSettings |-> NilMap,
          CustomHandler |-> FALSE]
    ELSE [fault |-> FALSE,
          BuiltinLogging |->
              \E k \in {"AzureWebJobsDashboard", "AzureWebJobsDashboard__accountName"} :
                 k \in DOMAIN input.kv,
          AppSettings |->
              [isNil |-> FALSE,
               kv |-> [k \in UnpackedKeys(input, configured) |->
                          NormalizeNilableString(input.kv[k])]],
          CustomHandler |->
              /\ "FUNCTIONS_WORKER_RUNTIME" \in DOMAIN input.kv
              /\ stackEmpty
              /\ input.kv["FUNCTIONS_WORKER_RUNTIME"] = "custom"]

\* What ListApplicationSettingsSlot lists: no Properties at all, none, and
\* settings of the kinds unpackLinuxFunctionAppSettings tells apart, a value
\* being a string or nil.
ListedSettings ==
    {NilDictionary, Dictionary(EmptyKV)}
    \cup {Dictionary([k \in {key} |-> v]) :
             key \in {"FUNCTIONS_WORKER_RUNTIME", "APP_KEY", "AzureWebJobsDashboard",
                      "WEBSITE_CONTENTSHARE"},
             v \in {"custom", "node", NilValue}}

\* LinuxFunctionAppSlotResource.Read, Func.  backupFound: a backup
\* configuration exists at the remote; input: the application settings the
\* remote lists; configured: the app_settings of the configuration; stackEmpty:
\* the flattened site_config has no application stack.
ReadRun(fail, kind, backupFound, exists, input, configured, stackEmpty) ==
    LET c1 == <<"GetSlot">>
        ans == [p \in ReadFailPoints |->
                   IF p = fail THEN kind
                   ELSE IF p = "GetBackupConfigurationSlot" /\ ~backupFound
                        THEN "notfound"
                        ELSE "ok"]
        tolerated == {p \in SubFetches : ~SubFetchFatal(p, ans[p])}
        run == RunCalls(ReadSteps, ans, tolerated, c1, <<>>)
        unpacked == unpackLinuxFunctionAppSettings(input, configured, stackEmpty)
        state == [AppSettings |-> FlattenSub(ans["ListApplicationSettingsSlot"] = "ok"),
                  ConnectionStrings |-> FlattenSub(ans["ListConnectionStringsSlot"] = "ok"),
                  SiteCredentials |-> FlattenSub(ans["ListPublishingCredentialsSlot"] = "ok"),
                  AuthSettings |-> FlattenSub(ans["GetAuthSettingsSlot"] = "ok"),
                  Backup |-> FlattenSub(ans["GetBackupConfigurationSlot"] = "ok"),
                  AppServiceLogs |-> FlattenSub(ans["GetDiagnosticLogsConfigurationSlot"] = "ok"),
                  SiteConfig |-> FlattenSub(ans["GetConfigurationSlot"] = "ok"),
                  BuiltinLogging |-> unpacked.BuiltinLogging,
                  UserAppSettings |-> unpacked.AppSettings,
                  CustomHandler |-> unpacked.CustomHandler]
        late == {"Encode", "flattenIdentity", "Set.identity"}
        unpackReached == run.err = OK \/ fail \in late
    IN  IF ReadPrimary(fail, exists) # OK
        THEN [calls |-> c1, err |-> ReadPrimary(fail, exists), idSet |-> FALSE,
              faults |-> <<Fault("GetSlot",
                                 IF fail = "GetSlot" THEN "error" ELSE "notfound")>>,
              state |-> None]
        ELSE IF unpackReached /\ unpacked.fault
        THEN [calls |-> run.calls, err |-> Panic, idSet |-> FALSE,
              faults |-> SelectSeq(run.faults, LAMBDA f : f.at \notin late),
              state |-> None]
        ELSE [calls |-> run.calls, err |-> run.err, idSet |-> FALSE,
              faults |-> run.faults,
              state |-> IF run.err = OK THEN state ELSE None]

\* ----------------------------------------------------------------- Update

\* The change set: the fields metadata.ResourceData.HasChange answers for.
ChangeFlags ==
    {"enabled", "https_only", "client_certificate_enabled",
     "client_certificate_mode", "identity", "key_vault_reference_identity_id",
     "tags", "site_config", "site_config.0.application_stack",
     "site_config.0.app_service_logs", "connection_string", "auth_settings",
     "backup", "app_settings"}

\* A change inside the site_config block is a change of the block.
RECURSIVE UpTo(_, _)
UpTo(S, n) ==
    IF n = 0 THEN {{}}
    ELSE LET P == UpTo(S, n - 1) IN P \cup {p \cup {x} : p \in P, x \in S}

ChangeSets ==
    {c \in UpTo(ChangeFlags, MaxNonDefault) :
        /\ ("site_config.0.application_stack" \in c => "site_config" \in c)
        /\ ("site_config.0.app_service_logs" \in c => "site_config" \in c)}

\* LinuxFunctionAppSlotModel, the fields Update reads, with the change set.
UpdateRecords ==
    {r \in [Storage : StorageChoices, AppSettings : UserMaps,
            BuiltinLogging : BOOLEAN, Backup : BOOLEAN, changed : ChangeSets] :
        B2N(r.Storage.StorageAccountKey = "") + B2N(~r.AppSettings.isNil)
        + B2N(~r.BuiltinLogging) + B2N(r.Backup) + Cardinality(r.changed)
            <= MaxNonDefault}

UpdateFailPoints ==
    {"none", "GetSlot", "GetSlot.SiteProperties", "ServicePlanInfoForApp",
     "expandIdentity", "ListApplicationSettings", "ExpandSiteConfig.nil",
     "ExpandSiteConfig.partial", "CreateOrUpdateSlot", "WaitForCompletionRef",
     "UpdateConfigurationSlot", "UpdateConnectionStringsSlot",
     "UpdateAuthSettingsSlot", "DeleteBackupConfigurationSlot",
     "UpdateBackupConfigurationSlot", "UpdateDiagnosticLogsConfigSlot"}

\* The fields of the primary document that Update assigns under a flag of the
\* same name.
FlaggedFields ==
    {"enabled", "https_only", "client_certificate_enabled",
     "client_certificate_mode", "identity", "key_vault_reference_identity_id",
     "tags", "site_config", "site_config.0.application_stack"}

\* Those held in the SiteProperties of the fetched document.
PropertyFields ==
    {"enabled", "https_only", "client_certificate_enabled",
     "client_certificate_mode", "key_vault_reference_identity_id"}

\* existing.SiteConfig.AppSettings as GetSlot returns it.
ExistingAppSettings == [k \in {"FUNCTIONS_EXTENSION_VERSION"} |-> "~3"]

\* The parent site's application settings as ListApplicationSettings returns
\* them, with or without content share settings.
SiteAppSettings(content) ==
    IF content
    THEN [k \in {"WEBSITE_CONTENTSHARE", "WEBSITE_CONTENTAZUREFILECONNECTIONSTRING"} |->
            IF k = "WEBSITE_CONTENTSHARE" THEN "site1-share" ELSE "site1-conn"]
    ELSE EmptyKV

\* helpers.ParseContentSettings: the remote's content share settings, put into
\* the user's settings.
ParseContentSettings(remote, user) ==
    [isNil |-> FALSE,
     kv |-> [k \in (DOMAIN user.kv) \cup (DOMAIN remote) |->
                IF k \in DOMAIN remote THEN remote[k] ELSE user.kv[k]]]

\* if sendContentSettings { ... } of Update, after the settings were listed.
UpdateContentSettings(send, content, settings) ==
    IF ~send THEN settings
    ELSE ParseContentSettings(SiteAppSettings(content),
                              IF settings.isNil THEN MakeMap ELSE settings)

\* if state.BuiltinLogging { ... } of Update: the map is made only when storage
\* does not use the managed identity.  fault: a nil map is written.
UpdateBuiltinLogging(r, settings) ==
    IF ~r.BuiltinLogging THEN [fault |-> FALSE, settings |-> settings]
    ELSE LET s == IF settings.isNil /\ ~r.Storage.StorageUsesMSI
                  THEN MakeMap ELSE settings
         IN  IF ~r.Storage.StorageUsesMSI
             THEN [fault |-> FALSE,
                   settings |-> MapPut(s, "AzureWebJobsDashboard", StorageString(r))]
             ELSE IF s.isNil
             THEN [fault |-> TRUE, settings |-> s]
             ELSE [fault |-> FALSE,
                   settings |-> MapPut(s, "AzureWebJobsDashboard__accountName",
                                       r.Storage.StorageAccountName)]

\* A variant that sends the desired record's value of every field.
SentFieldAlwaysDesired(f, changed) == "desired"

\* The value Update sends for a field of the primary document: the desired
\* record's under its flag, else the one just fetched.  The application stack
\* (LinuxFxVersion) is part of SiteConfig, which is replaced as a whole under
\* the flag of site_config.
SentField(f, changed) ==
    IF f \in changed
       \/ (f = "site_config.0.application_stack" /\ "site_config" \in changed)
    THEN "desired"
    ELSE "remote"

\* A variant that issues every call, whatever the change flags.
IssuesUngated(flag, changed) == TRUE

\* Whether Update issues the call of a dependent sub-resource.
Issues(flag, changed) == flag \in changed

\* A variant that takes every record to have a backup block.
BackupRequestPropertiesNeverNil(r) == FALSE

\* backupUpdate.BackupRequestProperties == nil: the record has no backup block.
BackupRequestPropertiesNil(r) == ~r.Backup

\* The primary update and the sub-resource calls after it.
UpdateSteps(r) ==
    << <<"CreateOrUpdateSlot", "CreateOrUpdateSlot", "updating Linux %s: %+v", TRUE>>,
       <<"WaitForCompletionRef", "WaitForCompletionRef",
         "waiting to update %s: %+v", TRUE>>,
       <<"UpdateConfigurationSlot", "UpdateConfigurationSlot",
         "updating Site Config for Linux %s: %+v", TRUE>>,
       <<"UpdateConnectionStringsSlot", "UpdateConnectionStringsSlot",
         "updating Connection Strings for Linux %s: %+v",
         Issues("connection_string", r.changed)>>,
       <<"UpdateAuthSettingsSlot", "UpdateAuthSettingsSlot",
         "updating Auth Settings for Linux %s: %+v",
         Issues("auth_settings", r.changed)>>,
       <<"DeleteBackupConfigurationSlot", "DeleteBackupConfigurationSlot",
         "removing Backup Settings for Linux %s: %+v",
         Issues("backup", r.changed) /\ BackupRequestPropertiesNil(r)>>,
       <<"UpdateBackupConfigurationSlot", "UpdateBackupConfigurationSlot",
         "updating Backup Settings for Linux %s: %+v",
         Issues("backup", r.changed) /\ ~BackupRequestPropertiesNil(r)>>,
       <<"UpdateDiagnosticLogsConfigSlot", "UpdateDiagnosticLogsConfigSlot",
         "updating App Service Log Settings for %s: %+v",
         Issues("site_config.0.app_service_logs", r.changed)>> >>

\* The resource a call of Update is addressed to, by the arguments it is handed:
\* the slot (id.ResourceGroup, id.SiteName, id.SlotName), the parent site
\* (id.ResourceGroup, id.SiteName), or the service plan of the app.
Addressee(call) ==
    CASE call = "ListApplicationSettings" -> "site"
      [] call = "ServicePlanInfoForApp" -> "plan"
      [] call = "WaitForCompletionRef" -> "future"
      [] OTHER -> "slot"

\* web.SiteConfigResource{SiteConfig: siteConfig} of the site configuration
\* update: under the flag of site_config, existing.SiteConfig is this very
\* object, and the merged settings were assigned through it; else it is the
\* expansion's own, taken here as an object apart from the existing.SiteConfig
\* the expansion was handed, its settings unmerged.
SentSiteConfig(siteConfig, envelope, changed) ==
    IF "site_config" \in changed
    THEN [AppSettings |-> envelope.AppSettings]
    ELSE siteConfig

\* What Update leaves behind: as Create, with the document fetched, the
\* document sent and the site configuration sent after it.
URet(calls, err, faults, existing, envelope, siteConfig) ==
    [calls |-> calls, err |-> err, idSet |-> FALSE, faults |-> faults,
     existing |-> existing, envelope |-> envelope, siteConfig |-> siteConfig]

\* LinuxFunctionAppSlotResource.Update, Func.  elastic: helpers.PlanIsElastic;
\* hasSiteConfig: the fetched document carries a SiteConfig; content: the
\* parent site has content share settings.
UpdateRun(r, elastic, hasSiteConfig, content, fail, exists) ==
    LET c1 == <<"GetSlot">>
        c2 == <<"GetSlot", "ServicePlanInfoForApp">>
        f0 == <<Fault(fail, "error")>>
        send == ~elastic
        c3 == IF send THEN Append(c2, "ListApplicationSettings") ELSE c2
        existing == [fields |-> [f \in FlaggedFields |-> "remote"],
                     hasSiteConfig |-> hasSiteConfig,
                     AppSettings |-> IF hasSiteConfig THEN ExistingAppSettings
                                     ELSE EmptyKV]
        expandFailed == fail \in {"ExpandSiteConfig.nil", "ExpandSiteConfig.partial"}
        ef == IF expandFailed THEN f0 ELSE <<>>
        s1 == UpdateContentSettings(send, content, r.AppSettings)
        bl == UpdateBuiltinLogging(r, s1)
        siteConfig == [AppSettings |-> ExpandSiteConfigAppSettings(r)]
        envelope == [fields |-> [f \in FlaggedFields |-> SentField(f, r.changed)],
                     AppSettings |-> MergeUserAppSettings(siteConfig.AppSettings,
                                                          bl.settings)]
        sent == SentSiteConfig(siteConfig, envelope, r.changed)
        run == RunCalls(UpdateSteps(r), OneFailure(UpdateFailPoints, fail), {},
                        c3, ef)
    IN  IF fail = "GetSlot" \/ ~exists
        THEN URet(c1, "reading Linux %s: %v",
                  <<Fault("GetSlot", IF fail = "GetSlot" THEN "error" ELSE "notfound")>>,
                  None, None, None)
        ELSE IF fail = "ServicePlanInfoForApp"
        THEN URet(c2, "%v", f0, existing, None, None)
        ELSE IF fail = "GetSlot.SiteProperties" /\ r.changed \cap PropertyFields # {}
        THEN URet(c2, Panic, <<>>, None, None, None)
        ELSE IF fail = "expandIdentity" /\ "identity" \in r.changed
        THEN URet(c2, "expanding identity: %+v", f0, existing, None, None)
        ELSE IF send /\ fail = "ListApplicationSettings"
        THEN URet(c3, "reading App Settings for Windows %s: %+v", f0, existing,
                  None, None)
        ELSE IF fail = "GetSlot.SiteProperties"
        THEN URet(c3, Panic, <<>>, None, None, None)
        ELSE IF bl.fault
        THEN URet(c3, Panic, Append(ef, Fault("state.AppSettings", "nil map")),
                  existing, None, None)
        ELSE IF "site_config" \in r.changed /\ expandFailed
        THEN URet(c3, "expanding Site Config for Linux %s: %+v", f0, existing,
                  None, None)
        ELSE IF "site_config" \notin r.changed
                /\ (~hasSiteConfig \/ fail = "ExpandSiteConfig.nil")
        THEN URet(c3, Panic, ef, existing, None, None)
        ELSE URet(run.calls, run.err, run.faults, existing, envelope,
                  IF \E i \in 1..Len(run.calls) :
                        run.calls[i] = "UpdateConfigurationSlot"
                  THEN sent ELSE None)

\* --------------------------------------------------------------- machine

VARIABLES
    remoteExists,   \* the slot exists at the remote (Absent / Present)
    tracked,        \* the resource ID is recorded in the tracked state
    partial,        \* the slot was left by a Create that did not record its ID
    op,             \* the handler that ran last, or "idle"
    rec,            \* the desired-state record it decoded
    out             \* what it left behind

vars == <<remoteExists, tracked, partial, op, rec, out>>

Init ==
    /\ remoteExists = FALSE
    /\ tracked = FALSE
    /\ partial = FALSE
    /\ op = "idle"
    /\ rec = None
    /\ out = None

\* The slot exists once the primary create was accepted and awaited.
CreatedRemotely(o) ==
    \E i \in 1..Len(o.calls) :
        /\ o.calls[i] = "WaitForCompletionRef"
        /\ (i < Len(o.calls) \/ o.err = OK)

Create ==
    /\ op = "idle"
    /\ ~tracked
    /\ \E r \in CreateRecords, tier \in Tiers, ase \in AseChoices,
          f \in CreateFailPoints :
          LET o == CreateRun(r, tier, ase, f, remoteExists)
          IN  /\ op' = "Create"
              /\ rec' = r
              /\ out' = o
              /\ tracked' = o.idSet
              /\ remoteExists' = (remoteExists \/ CreatedRemotely(o))
              /\ partial' = IF CreatedRemotely(o) THEN ~o.idSet ELSE partial

\* What the remote answers to DeleteSlot.
DeleteAnswers(exists) == IF exists THEN {"ok", "error"} ELSE {"notfound", "error"}

Delete ==
    /\ op = "idle"
    /\ tracked
    /\ \E kind \in DeleteAnswers(remoteExists) :
          LET o == DeleteRun(kind)
          IN  /\ op' = "Delete"
              /\ rec' = None
              /\ out' = o
              /\ tracked' = (o.err # OK)
              /\ remoteExists' = (remoteExists /\ kind # "ok")
              /\ partial' = (partial /\ kind # "ok")

\* The handler has returned; the framework may invoke the next one.
Return ==
    /\ op # "idle"
    /\ op' = "idle"
    /\ rec' = None
    /\ out' = None
    /\ UNCHANGED <<remoteExists, tracked, partial>>

\* Another actor creates or removes the slot at the remote.
RemoteChanged ==
    /\ op = "idle"
    /\ remoteExists' = ~remoteExists
    /\ partial' = FALSE
    /\ UNCHANGED <<tracked, op, rec, out>>

Read ==
    /\ op = "idle"
    /\ tracked
    /\ \E f \in ReadFailPoints, backupFound \in BOOLEAN,
          input \in ListedSettings, configured \in UserMaps, stackEmpty \in BOOLEAN :
          \E kind \in FailKinds(f) :
             LET o == ReadRun(f, kind, backupFound, remoteExists, input, configured,
                              stackEmpty)
             IN  /\ op' = "Read"
                 /\ rec' = [input |-> input, configured |-> configured,
                            stackEmpty |-> stackEmpty]
                 /\ out' = o
                 /\ tracked' = (o.err # Gone)
                 /\ UNCHANGED <<remoteExists, partial>>

Update ==
    /\ op = "idle"
    /\ tracked
    /\ \E r \in UpdateRecords, elastic \in BOOLEAN, hasSiteConfig \in BOOLEAN,
          content \in BOOLEAN, f \in UpdateFailPoints :
          LET o == UpdateRun(r, elastic, hasSiteConfig, content, f, remoteExists)
          IN  /\ op' = "Update"
              /\ rec' = r
              /\ out' = o
              /\ UNCHANGED <<remoteExists, tracked, partial>>

Next == Create \/ Read \/ Update \/ Delete \/ Return \/ RemoteChanged

Spec == Init /\ [][Next]_vars

\* ------------------------------------------------------------------ codec

\* The generated operations: SnapshotsClient.List,
\* FluidRelayServersClient.ListKeys, ResourceClient.SpatialAnchorsAccountsCreate.
CodecOperations == {"List", "ListKeys", "SpatialAnchorsAccountsCreate"}

\* The statuses a remote answers with, and the bodies it sends: a document of
\* the Model, one that is no JSON, one of another shape, none.
Statuses == {200, 201, 202, 204, 400, 404, 409, 500}

Bodies == {"valid", "malformed", "mistyped", "empty"}

\* http.Response: a nil pointer, or a response with its status and its body.
NoResponse == [present |-> FALSE, status |-> 0, body |-> "empty", closed |-> FALSE]

Response(status, body, closed) ==
    [present |-> TRUE, status |-> status, body |-> body, closed |-> closed]

\* c.Client.Send: a response; an error without a response; an error with the
\* response of the last attempt, whose body the sender did or did not release.
SendOutcomes ==
    {[err |-> FALSE, resp |-> Response(st, b, FALSE)] : st \in Statuses, b \in Bodies}
    \cup {[err |-> TRUE, resp |-> NoResponse]}
    \cup {[err |-> TRUE, resp |-> Response(st, "valid", c)] :
             st \in Statuses, c \in BOOLEAN}

\* A variant that expects 200 alone of every operation.
ExpectedStatusCodesOnlyOK(operation) == {200}

\* azure.WithErrorUnlessStatusCode(...): the statuses the responder of an
\* operation takes for a success.
ExpectedStatusCodes(operation) ==
    IF operation = "SpatialAnchorsAccountsCreate" THEN {201, 200} ELSE {200}

\* azure.WithErrorUnlessStatusCode: an error for a status outside codes, the
\* body read for the error's detail and released.
WithErrorUnlessStatusCode(resp, codes) ==
    IF resp.status \in codes
    THEN [err |-> "nil", resp |-> resp]
    ELSE [err |-> "RequestError", resp |-> [resp EXCEPT !.closed = TRUE]]

\* autorest.ByUnmarshallingJSON(&result.Model): runs when no error came before
\* it; an empty body decodes nothing and is no error.
ByUnmarshallingJSON(prev) ==
    IF prev.err # "nil" THEN [err |-> prev.err, resp |-> prev.resp, Model |-> "nil"]
    ELSE CASE prev.resp.body = "valid" ->
                 [err |-> "nil", resp |-> prev.resp, Model |-> "decoded"]
           [] prev.resp.body = "empty" ->
                 [err |-> "nil", resp |-> prev.resp, Model |-> "nil"]
           [] prev.resp.body = "malformed" ->
                 [err |-> "Error occurred unmarshalling JSON", resp |-> prev.resp,
                  Model |-> "nil"]
           [] OTHER ->
                 [err |-> "Error occurred unmarshalling JSON", resp |-> prev.resp,
                  Model |-> "partial"]

\* autorest.ByClosing(): releases the body whatever came before it; a failure
\* to release is the error returned.
ByClosing(prev, closeFails) ==
    [err |-> IF closeFails THEN "Error closing the response body" ELSE prev.err,
     resp |-> [prev.resp EXCEPT !.closed = TRUE],
     Model |-> prev.Model]

\* responderFor<Operation>: autorest.Respond with the three decorators, the
\* status test innermost, then result.HttpResponse = resp.
Responder(operation, resp, closeFails) ==
    LET done == ByClosing(
                    ByUnmarshallingJSON(
                        WithErrorUnlessStatusCode(resp, ExpectedStatusCodes(operation))),
                    closeFails)
    IN  [HttpResponse |-> done.resp, Model |-> done.Model, err |-> done.err]

\* The operation: prepare, send, respond, each error wrapped with the step
\* that failed.
Operation(operation, prepareFails, send, closeFails) ==
    LET responded == Responder(operation, send.resp, closeFails)
    IN  IF prepareFails
        THEN [HttpResponse |-> NoResponse, Model |-> "nil",
              err |-> "Failure preparing request", cause |-> "prepare"]
        ELSE IF send.err
        THEN [HttpResponse |-> send.resp, Model |-> "nil",
              err |-> "Failure sending request", cause |-> "send"]
        ELSE IF responded.err # "nil"
        THEN [HttpResponse |-> responded.HttpResponse, Model |-> responded.Model,
              err |-> "Failure responding to request", cause |-> responded.err]
        ELSE [HttpResponse |-> responded.HttpResponse, Model |-> responded.Model,
              err |-> "nil", cause |-> "nil"]

\* A caller invokes one operation of a generated client.
Invoke ==
    /\ op = "idle"
    /\ \E operation \in CodecOperations, prepareFails \in BOOLEAN,
          send \in SendOutcomes, closeFails \in BOOLEAN :
          /\ prepareFails => (send = [err |-> TRUE, resp |-> NoResponse] /\ ~closeFails)
          /\ (send.err /\ ~prepareFails) => ~closeFails
          /\ op' = operation
          /\ rec' = [prepareFails |-> prepareFails, send |-> send,
                     closeFails |-> closeFails]
          /\ out' = Operation(operation, prepareFails, send, closeFails)
          /\ UNCHANGED <<remoteExists, tracked, partial>>

CodecNext == Invoke \/ Return

CodecSpec == Init /\ [][CodecNext]_vars

\* ------------------------------------------------------------- round trip

\* What the remote lists of the settings it was sent: each with its value.
ListedFrom(sent) == Dictionary(sent)

\* Create up to the document it sends: the settings expanded from a record.
Expand ==
    /\ op = "idle"
    /\ \E r \in CreateRecords, tier \in Tiers :
          /\ op' = "Expand"
          /\ rec' = r
          /\ out' = [tier |-> tier, envelope |-> SiteEnvelope(r, tier),
                     fault |-> FALSE, BuiltinLogging |-> FALSE,
                     AppSettings |-> NilMap]
    /\ UNCHANGED <<remoteExists, tracked, partial>>

\* Read of the settings just sent, under the configuration that sent them.
Flatten ==
    /\ op = "Expand"
    /\ \E stackEmpty \in BOOLEAN :
          LET m == unpackLinuxFunctionAppSettings(
                       ListedFrom(out.envelope.AppSettings), rec.AppSettings,
                       stackEmpty)
          IN  /\ op' = "Flatten"
              /\ out' = [tier |-> out.tier, envelope |-> out.envelope,
                         fault |-> m.fault, BuiltinLogging |-> m.BuiltinLogging,
                         AppSettings |-> m.AppSettings]
    /\ UNCHANGED <<remoteExists, tracked, partial, rec>>

RoundTripNext == Expand \/ Flatten \/ Return

RoundTripSpec == Init /\ [][RoundTripNext]_vars

\* ------------------------------------------------------------ properties

Called(c) == \E i \in 1..Len(out.calls) : out.calls[i] = c

Count(c) == Cardinality({i \in 1..Len(out.calls) : out.calls[i] = c})

Wrote == \E i \in 1..Len(out.calls) : out.calls[i] \in MutatingCalls

Failed(at, kind) ==
    \E i \in 1..Len(out.faults) : out.faults[i] = Fault(at, kind)

Answered(at) == \E i \in 1..Len(out.faults) : out.faults[i].at = at

LastCall == out.calls[Len(out.calls)]

\* C1: Create whose existence check finds the slot returns the import-required
\* error, issues no mutating call and does not record the ID; an existence
\* check that fails otherwise returns a different error, also without a write.
C1_ExistingSlotRequiresImport ==
    (op = "Create" /\ Called("GetSlot")) =>
        /\ ~Answered("GetSlot") =>
              (out.err = RequiresImport /\ ~Wrote /\ ~out.idSet /\ ~tracked)
        /\ Failed("GetSlot", "error") =>
              /\ out.err = "checking for presence of existing Linux %s: %+v"
              /\ out.err # RequiresImport
              /\ ~Wrote /\ ~out.idSet /\ ~tracked

C1_Witness ==
    /\ op = "Create" /\ Called("GetSlot") /\ ~Answered("GetSlot")
    /\ out.err = RequiresImport /\ remoteExists

\* C2: Read whose primary fetch answers not-found returns the resource-removed
\* signal and fetches nothing more; any other failure of the primary fetch
\* returns a generic error.
C2_ReadNotFoundIsGone ==
    op = "Read" =>
        /\ Failed("GetSlot", "notfound") =>
              (out.err = Gone /\ out.calls = <<"GetSlot">> /\ ~tracked)
        /\ Failed("GetSlot", "error") =>
              /\ out.err = "reading Linux %s: %+v"
              /\ out.calls = <<"GetSlot">>
              /\ tracked

C2_Witness ==
    op = "Read" /\ Failed("GetSlot", "notfound") /\ out.err = Gone /\ ~remoteExists

ReadErrorOf(p) ==
    LET i == CHOOSE j \in 1..Len(ReadSteps) : ReadSteps[j][1] = p
    IN  ReadSteps[i][3]

SubCallFlags ==
    {<<"UpdateConfigurationSlot", "site_config">>,
     <<"UpdateConnectionStringsSlot", "connection_string">>,
     <<"UpdateAuthSettingsSlot", "auth_settings">>,
     <<"UpdateDiagnosticLogsConfigSlot", "site_config.0.app_service_logs">>}

BackupCalled ==
    Called("UpdateBackupConfigurationSlot") \/ Called("DeleteBackupConfigurationSlot")

\* C4 as claimed: a completed Update has issued each dependent sub-resource
\* call (site configuration, connection strings, auth settings, backup, logs)
\* if and only if its change flag is set.
C4_SubCallsIffFlag ==
    (op = "Update" /\ out.err = OK) =>
        /\ \A cf \in SubCallFlags : Called(cf[1]) <=> cf[2] \in rec.changed
        /\ BackupCalled <=> "backup" \in rec.changed

\* C4 as amended: Update issues the calls for connection strings, auth
\* settings, backup and logs only under their change flags, and a completed
\* Update has issued each of them whose flag is set; the site configuration
\* update is issued by every Update whose primary update succeeded, whatever
\* the flags: with only tags changed the writes are the primary update and
\* the site configuration update.
C4_SubCallsIffFlagButSiteConfig ==
    op = "Update" =>
        /\ \A cf \in SubCallFlags \ {<<"UpdateConfigurationSlot", "site_config">>} :
              /\ Called(cf[1]) => cf[2] \in rec.changed
              /\ (out.err = OK /\ cf[2] \in rec.changed) => Called(cf[1])
        /\ BackupCalled => "backup" \in rec.changed
        /\ (out.err = OK /\ "backup" \in rec.changed) => BackupCalled
        /\ out.err = OK => Called("UpdateConfigurationSlot")
        /\ (out.err = OK /\ rec.changed = {"tags"}) =>
              {out.calls[i] : i \in 1..Len(out.calls)} \cap MutatingCalls
                 = {"CreateOrUpdateSlot", "UpdateConfigurationSlot"}

C4_Witness ==
    /\ op = "Update" /\ out.err = OK /\ rec.changed = {"tags"}
    /\ Called("UpdateConfigurationSlot") /\ ~BackupCalled
    /\ ~Called("UpdateAuthSettingsSlot")

\* The application settings the primary create carried.
SentSettings == out.envelope.AppSettings

UserSupplied(k) == k \in DOMAIN rec.AppSettings.kv

\* C5: with builtin logging on, Create under managed identity sends
\* AzureWebJobsDashboard__accountName = the storage account name and does not
\* add AzureWebJobsDashboard (it is sent only as the user gave it); without
\* managed identity it sends AzureWebJobsDashboard = the storage string and
\* does not add the suffixed key.
C5_DashboardKey ==
    (op = "Create" /\ Called("CreateOrUpdateSlot") /\ rec.BuiltinLogging) =>
        IF rec.Storage.StorageUsesMSI
        THEN /\ "AzureWebJobsDashboard__accountName" \in DOMAIN SentSettings
             /\ SentSettings["AzureWebJobsDashboard__accountName"] = "acct1"
             /\ "AzureWebJobsDashboard" \in DOMAIN SentSettings =>
                   /\ UserSupplied("AzureWebJobsDashboard")
                   /\ SentSettings["AzureWebJobsDashboard"] = "user"
        ELSE /\ "AzureWebJobsDashboard" \in DOMAIN SentSettings
             /\ SentSettings["AzureWebJobsDashboard"] = StorageString(rec)
             /\ SentSettings["AzureWebJobsDashboard"] # "user"
             /\ "AzureWebJobsDashboard__accountName" \in DOMAIN SentSettings =>
                   /\ UserSupplied("AzureWebJobsDashboard__accountName")
                   /\ SentSettings["AzureWebJobsDashboard__accountName"] = "user"

C5_Witness ==
    /\ op = "Create" /\ Called("CreateOrUpdateSlot") /\ rec.BuiltinLogging
    /\ rec.Storage.StorageUsesMSI /\ rec.Storage.StorageAccountName = "acct1"
    /\ SentSettings["AzureWebJobsDashboard__accountName"] = "acct1"
    /\ "AzureWebJobsDashboard" \notin DOMAIN SentSettings

ContentKeys == {"WEBSITE_CONTENTSHARE", "WEBSITE_CONTENTAZUREFILECONNECTIONSTRING"}

\* The tiers, as the remote spells them, under which Create synthesizes nothing.
NoContentTiers ==
    {"Dynamic", "dynamic", "Basic", "Standard", "PremiumV2", "PremiumV3"}

Synthesized(k) == k \in DOMAIN SentSettings /\ ~UserSupplied(k)

\* C6: Create on a plan of tier dynamic, in any case, synthesizes neither
\* content share setting, whatever content_share_force_disabled; it
\* synthesizes them exactly when content_share_force_disabled is false and
\* the tier is none of dynamic, basic, standard, premiumv2, premiumv3.
C6_DynamicOmitsContentShare ==
    (op = "Create" /\ Called("CreateOrUpdateSlot")) =>
        /\ out.tier \in {"Dynamic", "dynamic"} =>
              \A k \in ContentKeys : ~Synthesized(k)
        /\ (\E k \in ContentKeys : Synthesized(k)) =>
              (~rec.ForceDisableContentShare /\ out.tier \notin NoContentTiers)
        /\ (~rec.ForceDisableContentShare /\ out.tier \notin NoContentTiers) =>
              \A k \in ContentKeys :
                 /\ k \in DOMAIN SentSettings
                 /\ UserSupplied(k) => SentSettings[k] = "user"

C6_Witness ==
    /\ op = "Create" /\ Called("CreateOrUpdateSlot") /\ out.tier = "Dynamic"
    /\ ~rec.ForceDisableContentShare
    /\ \A k \in ContentKeys : k \notin DOMAIN SentSettings

\* The dependent sub-resource calls of Create, in order, with the record's
\* field that configures each and the error that names it.
CreateSubCalls ==
    << <<"UpdateBackupConfigurationSlot", "adding Backup Settings for Linux %s: %+v">>,
       <<"UpdateAuthSettingsSlot", "setting Authorisation Settings for Linux %s: %+v">>,
       <<"UpdateConnectionStringsSlot", "setting Connection Strings for Linux %s: %+v">>,
       <<"UpdateDiagnosticLogsConfigSlot", "updating App Service Log Settings for %s: %+v">> >>

Configured(i) ==
    CASE i = 1 -> rec.Backup
      [] i = 2 -> rec.AuthSettings
      [] i = 3 -> rec.ConnectionStrings
      [] OTHER -> rec.AppServiceLogs

\* C7: a dependent sub-resource call of Create that fails after the primary
\* create succeeded makes Create return the error naming that call, with no
\* later sub-resource call, no delete or rollback (the slot stays at the
\* remote) and no ID recorded; the ID is recorded only when every step
\* succeeded.
C7_PartialCreate ==
    op = "Create" =>
        /\ \A i \in 1..Len(CreateSubCalls) :
              Failed(CreateSubCalls[i][1], "error") =>
                 /\ out.err = CreateSubCalls[i][2]
                 /\ LastCall = CreateSubCalls[i][1]
                 /\ \A j \in (i + 1)..Len(CreateSubCalls) :
                       ~Called(CreateSubCalls[j][1])
                 /\ Count("CreateOrUpdateSlot") = 2
                 /\ ~Called("DeleteSlot")
                 /\ remoteExists
                 /\ ~out.idSet /\ ~tracked
        /\ \A i \in 1..Len(CreateSubCalls), j \in 1..Len(CreateSubCalls) :
              (i # j /\ out.err = CreateSubCalls[i][2]) =>
                 out.err # CreateSubCalls[j][2]
        /\ (out.idSet \/ tracked) =>
              /\ out.err = OK
              /\ Count("CreateOrUpdateSlot") = 2 /\ Count("WaitForCompletionRef") = 2
              /\ \A i \in 1..Len(CreateSubCalls) :
                    Configured(i) =>
                       (Called(CreateSubCalls[i][1])
                        /\ ~Answered(CreateSubCalls[i][1]))

C7_Witness ==
    /\ op = "Create" /\ Failed("UpdateBackupConfigurationSlot", "error")
    /\ rec.AuthSettings /\ ~Called("UpdateAuthSettingsSlot")
    /\ remoteExists /\ ~tracked

\* C8: in Create and Update an error handed back by a remote call or by an
\* expansion step makes the handler return an error.
C8_NoErrorSwallowed ==
    op \in {"Create", "Update"} =>
        ((\E i \in 1..Len(out.faults) : out.faults[i].kind = "error") =>
            out.err \notin {OK, Panic})

\* C9: Delete issues DeleteSlot and nothing else, and returns an error when it
\* fails, not-found included; the resource then stays tracked.
C9_DeleteNotIdempotent ==
    op = "Delete" =>
        /\ out.calls = <<"DeleteSlot">>
        /\ (Failed("DeleteSlot", "notfound") \/ Failed("DeleteSlot", "error")) =>
              (out.err = "deleting Linux %s: %+v" /\ tracked)
        /\ out.err = OK => (~Answered("DeleteSlot") /\ ~tracked /\ ~remoteExists)

C9_Witness ==
    /\ op = "Delete" /\ Failed("DeleteSlot", "notfound")
    /\ out.err = "deleting Linux %s: %+v" /\ ~remoteExists

\* C10 as claimed: the document of the primary update differs from the one
\* just fetched only in fields whose change flag is set, app settings and the
\* application stack included.
C10_UnflaggedFieldsRefetched ==
    (op = "Update" /\ Called("CreateOrUpdateSlot")) =>
        /\ \A f \in FlaggedFields :
              f \notin rec.changed => out.envelope.fields[f] = out.existing.fields[f]
        /\ "app_settings" \notin rec.changed =>
              out.envelope.AppSettings = out.existing.AppSettings

\* C10 as amended: enabled, https_only, client_certificate_enabled,
\* client_certificate_mode, identity, key_vault_reference_identity_id, tags
\* and site_config are sent as just fetched unless their flag is set, and as
\* the desired record has them when it is; the application stack is sent as
\* fetched unless the flag of site_config is set; the app settings are rebuilt
\* from the desired record on every Update, whatever the flags.
C10_UnflaggedFieldsButAppSettings ==
    (op = "Update" /\ Called("CreateOrUpdateSlot")) =>
        /\ \A f \in FlaggedFields \ {"site_config.0.application_stack"} :
              /\ f \notin rec.changed =>
                    out.envelope.fields[f] = out.existing.fields[f]
              /\ f \in rec.changed => out.envelope.fields[f] = "desired"
        /\ "site_config" \notin rec.changed =>
              out.envelope.fields["site_config.0.application_stack"]
                 = out.existing.fields["site_config.0.application_stack"]
        /\ out.envelope.AppSettings["FUNCTIONS_EXTENSION_VERSION"] = "~4"
        /\ out.envelope.AppSettings # out.existing.AppSettings
        /\ \A k \in DOMAIN rec.AppSettings.kv : k \in DOMAIN out.envelope.AppSettings

C10_Witness ==
    /\ op = "Update" /\ Called("CreateOrUpdateSlot") /\ rec.changed = {"tags"}
    /\ out.envelope.fields["tags"] = "desired"
    /\ out.envelope.fields["enabled"] = "remote"
    /\ out.existing.hasSiteConfig

\* C11: an operation that sent its request decodes the body into the Model
\* only for a status of its expected set ({200} for List and ListKeys,
\* {200, 201} for SpatialAnchorsAccountsCreate); any other status is an error
\* with no Model; and the result carries the response either way.
C11_DecodeOnlyExpectedStatus ==
    (op \in CodecOperations /\ ~rec.prepareFails /\ ~rec.send.err) =>
        LET expected == IF op = "SpatialAnchorsAccountsCreate"
                        THEN {200, 201} ELSE {200}
            status == rec.send.resp.status
        IN  /\ out.Model # "nil" => status \in expected
            /\ status \notin expected =>
                  (out.err = "Failure responding to request" /\ out.Model = "nil")
            /\ (status \in expected /\ rec.send.resp.body = "valid" /\ ~rec.closeFails) =>
                  (out.err = "nil" /\ out.Model = "decoded")
            /\ out.HttpResponse.present
            /\ out.HttpResponse.status = status

C11_Witness ==
    /\ op = "SpatialAnchorsAccountsCreate" /\ ~rec.prepareFails /\ ~rec.send.err
    /\ rec.send.resp.status = 201 /\ out.Model = "decoded" /\ out.err = "nil"
    /\ out.HttpResponse.present

\* C12: whenever an operation obtained a response, the body of that response
\* is closed when the operation returns.
C12_BodyClosedOnAllPaths ==
    (op \in CodecOperations /\ out.HttpResponse.present) => out.HttpResponse.closed

\* The record of a Create, and of an Update, that reaches every failure point.
FullCreateRecord ==
    [Storage |-> CHOOSE c \in StorageChoices : ~c.StorageUsesMSI,
     AppSettings |-> NilMap, BuiltinLogging |-> TRUE,
     ForceDisableContentShare |-> FALSE, Backup |-> TRUE, AuthSettings |-> TRUE,
     ConnectionStrings |-> TRUE, AppServiceLogs |-> TRUE]

FullUpdateRecord(backup) ==
    [Storage |-> CHOOSE c \in StorageChoices : ~c.StorageUsesMSI,
     AppSettings |-> NilMap, BuiltinLogging |-> TRUE, Backup |-> backup,
     changed |-> ChangeFlags]

\* The error a handler returns when it fails at a place.
ErrorAt(handler, place) ==
    CASE handler = "Create" ->
            CreateRun(FullCreateRecord, "ElasticPremium", "none", place, FALSE).err
      [] handler = "Read" ->
            ReadRun(place, "error", TRUE, TRUE, Dictionary(EmptyKV), NilMap, FALSE).err
      [] OTHER ->
            UpdateRun(FullUpdateRecord(place # "DeleteBackupConfigurationSlot"),
                      FALSE, TRUE, FALSE, place, TRUE).err

FailPointsOf(handler) ==
    CASE handler = "Create" -> CreateFailPoints
      [] handler = "Read" -> ReadFailPoints
      [] OTHER -> UpdateFailPoints

\* The error texts that are formatted without the resource's identifier: with
\* nothing but the cause, or with the name of the parent site.
TextsWithoutIdentifier ==
    {"expanding identity: %+v", "encoding: %+v", "flattening identity: %+v",
     "setting identity: %+v", "%v",
     "the Site Name %q failed the availability check: %+v",
     "making Read request on AzureRM Function App Configuration %q: %+v"}

\* The place of the failure that ended the handler.
FailedAt == out.faults[Len(out.faults)].at

\* C13: an error message of Create, Read or Update carries the resource's
\* identifier and is the message of no other failure point of that handler, so
\* that the wait on an asynchronous call is told from the call itself and from
\* every other wait.
C13_DistinctErrorTexts ==
    (op \in {"Create", "Read", "Update"}
     /\ out.err \notin {OK, Panic, RequiresImport, Gone}) =>
        /\ out.err \notin TextsWithoutIdentifier
        /\ \A g \in FailPointsOf(op) \ {FailedAt, "none"} : ErrorAt(op, g) # out.err

\* C14: Read of a slot whose remote documents lack fields flattens them to zero
\* values and does not fail for it: without SiteProperties, without a
\* dictionary of application settings, and with a setting whose value is nil,
\* Read returns no error and no runtime fault, the dictionary's absence giving
\* empty app_settings and a nil value the empty string.
C14_AbsentFieldsFlattenToZero ==
    (op = "Read"
     /\ \A i \in 1..Len(out.faults) :
           out.faults[i] \in {Fault("GetBackupConfigurationSlot", "notfound"),
                              Fault("GetSlot.SiteProperties", "error")}) =>
        /\ out.err = OK
        /\ rec.input.isNil =>
              (out.state.UserAppSettings.kv = EmptyKV /\ ~out.state.BuiltinLogging)
        /\ \A k \in DOMAIN out.state.UserAppSettings.kv :
              rec.input.kv[k] = NilValue => out.state.UserAppSettings.kv[k] = ""

\* C15: the settings Create sends for a record, read back unchanged through
\* unpackLinuxFunctionAppSettings, give the record's builtin_logging_enabled
\* and its app_settings: no key the adapter added, every key the user gave.
C15_RoundTrip ==
    op = "Flatten" =>
        /\ ~out.fault
        /\ out.BuiltinLogging = rec.BuiltinLogging
        /\ out.AppSettings.kv = rec.AppSettings.kv

PreChecks ==
    {"Get", "Get.Location", "Get.ServerFarmID", "ServicePlanGet",
     "ServicePlanGet.Sku", "GetSlot", "CheckNameAvailability",
     "CheckNameAvailability.NameAvailable"}

PreCheckCalls == <<"Get", "ServicePlanGet", "GetSlot", "CheckNameAvailability">>

PositionsOf(c) == {i \in 1..Len(out.calls) : out.calls[i] = c}

PrimaryPlaces ==
    {"CreateOrUpdateSlot.1", "WaitForCompletionRef.1", "CreateOrUpdateSlot.2",
     "WaitForCompletionRef.2"}

\* C17: Create issues a sub-resource call only after both CreateOrUpdateSlot
\* calls and the waits on them succeeded; the sub-resource calls come in the
\* order backup, auth settings, connection strings, logs, each one only when
\* the record configures it; the ID is recorded only after the last of them.
C17_SubCallsAfterPrimaryInOrder ==
    op = "Create" =>
        /\ \A i \in 1..Len(CreateSubCalls) :
              Called(CreateSubCalls[i][1]) =>
                 /\ Configured(i)
                 /\ Count(CreateSubCalls[i][1]) = 1
                 /\ \A p \in PrimaryPlaces : ~Failed(p, "error")
                 /\ \A n \in PositionsOf(CreateSubCalls[i][1]) :
                       /\ Cardinality({k \in PositionsOf("CreateOrUpdateSlot") : k < n}) = 2
                       /\ Cardinality({k \in PositionsOf("WaitForCompletionRef") : k < n}) = 2
                       /\ \A j \in 1..(i - 1) :
                             \A k \in PositionsOf(CreateSubCalls[j][1]) : k < n
        /\ out.idSet =>
              /\ out.err = OK
              /\ \A i \in 1..Len(CreateSubCalls) :
                    /\ Configured(i) <=> Called(CreateSubCalls[i][1])
                    /\ ~Failed(CreateSubCalls[i][1], "error")

C17_Witness ==
    /\ op = "Create" /\ out.idSet /\ rec.Backup /\ rec.AppServiceLogs
    /\ Called("UpdateBackupConfigurationSlot")
    /\ LastCall = "UpdateDiagnosticLogsConfigSlot"

\* The settings Create would send with the content share steps left out: the
\* expansion's merged with the record's after the builtin logging step.
SentWithoutContentSteps ==
    MergeUserAppSettings(ExpandSiteConfigAppSettings(rec),
                         BuiltinLoggingSettings(rec, rec.AppSettings))

SynthesizedValue(k) ==
    IF k = "WEBSITE_CONTENTSHARE" THEN "slot1-0a1b" ELSE StorageString(rec)

\* C18: when Create synthesizes the content share settings, a content share
\* key the user supplied is sent with the user's value, the synthesized value
\* is sent only for a content share key the user did not supply, and the
\* synthesis changes or removes no other setting.
C18_ContentSynthesisKeepsUserKeys ==
    (op = "Create" /\ Called("CreateOrUpdateSlot")
     /\ SendContentSettings(rec.ForceDisableContentShare, out.tier)) =>
        /\ \A k \in ContentKeys :
              /\ k \in DOMAIN SentSettings
              /\ SentSettings[k] =
                    IF UserSupplied(k) THEN rec.AppSettings.kv[k]
                    ELSE SynthesizedValue(k)
        /\ \A k \in DOMAIN SentWithoutContentSteps :
              k \in DOMAIN SentSettings /\ SentSettings[k] = SentWithoutContentSteps[k]
        /\ (DOMAIN SentSettings) \ (DOMAIN SentWithoutContentSteps) \subseteq
              {k \in ContentKeys : ~UserSupplied(k)}
        /\ \A k \in (DOMAIN rec.AppSettings.kv) \ ContentKeys : k \in DOMAIN SentSettings

C18_Witness ==
    /\ op = "Create" /\ Called("CreateOrUpdateSlot")
    /\ SendContentSettings(rec.ForceDisableContentShare, out.tier)
    /\ UserSupplied("WEBSITE_CONTENTSHARE")
    /\ SentSettings["WEBSITE_CONTENTSHARE"] = "user"
    /\ SentSettings["WEBSITE_CONTENTAZUREFILECONNECTIONSTRING"] = StorageString(rec)

NoWriteIn(o) == \A i \in 1..Len(o.calls) : o.calls[i] \notin MutatingCalls

\* C20: once a Create has failed at a sub-resource step, leaving the slot at
\* the remote and no ID recorded, every later Create for that slot issues no
\* write and records no ID, and leaves the slot as it is; one whose existence
\* check is answered returns the import-required error.
C20_RetryAfterPartialCreate ==
    [][(partial /\ op' = "Create") =>
          /\ NoWriteIn(out')
          /\ ~out'.idSet /\ ~tracked' /\ remoteExists' /\ partial'
          /\ out'.err # OK
          /\ (\E i \in 1..Len(out'.calls) : out'.calls[i] = "GetSlot")
             /\ (\A i \in 1..Len(out'.faults) : out'.faults[i].at # "GetSlot")
                => out'.err = RequiresImport]_vars

C20_Witness ==
    /\ op = "Create" /\ partial /\ remoteExists /\ ~tracked
    /\ out.err = RequiresImport /\ ~Wrote

DashboardKeys == {"AzureWebJobsDashboard", "AzureWebJobsDashboard__accountName"}

UpdateSentSettings == out.envelope.AppSettings

\* C21: Update with builtin logging on gets through the dashboard step with
\* no runtime fault, whatever the identity, the app_settings and the plan, and
\* the settings it goes on to send hold the one dashboard key of the identity
\* in use (the other only as the user gave it).
C21_UpdateDashboardKeyNoFault ==
    (op = "Update" /\ rec.BuiltinLogging) =>
        /\ ~Failed("state.AppSettings", "nil map")
        /\ Called("CreateOrUpdateSlot") =>
              LET own == IF rec.Storage.StorageUsesMSI
                         THEN "AzureWebJobsDashboard__accountName"
                         ELSE "AzureWebJobsDashboard"
              IN  /\ own \in DOMAIN UpdateSentSettings
                  /\ \A k \in DashboardKeys \ {own} :
                        k \in DOMAIN UpdateSentSettings => UserSupplied(k)

\* The calls of Update that read or write the settings of the resource: the
\* primary document, the app settings, the site configuration, the connection
\* strings, the auth settings, the backup and the logs.
OwnSettingsCalls ==
    {"GetSlot", "ListApplicationSettings", "CreateOrUpdateSlot",
     "UpdateConfigurationSlot", "UpdateConnectionStringsSlot",
     "UpdateAuthSettingsSlot", "DeleteBackupConfigurationSlot",
     "UpdateBackupConfigurationSlot", "UpdateDiagnosticLogsConfigSlot"}

\* C22: every call Update issues to read or write the resource's own settings
\* is addressed to the slot, none to the parent site; the content share
\* settings in particular are listed from the slot.
C22_UpdateCallsAddressSlot ==
    op = "Update" =>
        \A i \in 1..Len(out.calls) :
            out.calls[i] \in OwnSettingsCalls => Addressee(out.calls[i]) = "slot"

BackupCalls == {"DeleteBackupConfigurationSlot", "UpdateBackupConfigurationSlot"}

BackupCallCount == Cardinality({i \in 1..Len(out.calls) : out.calls[i] \in BackupCalls})

\* The run got to the backup step of Update: it ended well, or at that step,
\* or at the log settings after it.
BackupStepReached ==
    \/ out.err = OK
    \/ \E c \in BackupCalls : Failed(c, "error")
    \/ Called("UpdateDiagnosticLogsConfigSlot")

\* C23: Update under the flag of backup issues exactly one backup call, the
\* delete when the record has no backup block and the update when it has one,
\* and none before it gets to that step; Create of a record with no backup
\* block issues no backup call.
C23_OneBackupCall ==
    /\ (op = "Update" /\ "backup" \in rec.changed) =>
          /\ BackupCallCount = IF BackupStepReached THEN 1 ELSE 0
          /\ Called("DeleteBackupConfigurationSlot") => ~rec.Backup
          /\ Called("UpdateBackupConfigurationSlot") => rec.Backup
    /\ (op = "Create" /\ ~rec.Backup) => BackupCallCount = 0

C23_Witness ==
    /\ op = "Update" /\ "backup" \in rec.changed /\ ~rec.Backup
    /\ out.err = OK /\ Count("DeleteBackupConfigurationSlot") = 1
    /\ ~Called("UpdateBackupConfigurationSlot")

====
